---- MODULE Spec2Model ----
(***************************************************************************)
(* Keephy Categories Service (src/src/index.js).                           *)
(*                                                                         *)
(* The Category collection of the document store and the six request       *)
(* handlers of /api/categories.  Every awaited store operation is one      *)
(* atomic step of the store, taken together with the synchronous code of   *)
(* the handler around it, so the handlers of concurrent requests           *)
(* interleave at their awaits.  A store operation may fail (connection     *)
(* loss, cast or validation error, duplicate key): the handler's catch     *)
(* block then answers 500.                                                 *)
(***************************************************************************)
EXTENDS Integers, Sequences, FiniteSets, TLC

\* ---------------------------------------------------------------- bounds
MaxReqs == 2                      \* requests received in one behaviour

Clients == {"c1", "c2"}           \* requests that can be in flight together

\* ---------------------------------------------------------------- values
Undefined == "undefined"          \* a key absent from req.body / req.query
Null      == "null"               \* a stored null

\* ObjectIds.  Generated identifiers are 1, 2, ...; the others are inputs.
UndefinedId == -3                 \* identifier key absent from the request
NullId      == -2                 \* parentId: null
Malformed   == -1                 \* a string that is no ObjectId ("abc")
Dangling    == 0                  \* a well-formed ObjectId of no document
Biz1        == 100                \* a Business identifier

Names == {"Food", "Pizza", "Soda"}

\* JavaScript truthiness of the request values the handlers test.
TruthyText(v) == v \notin {Undefined, Null, ""}
TruthyId(v)   == v \notin {UndefinedId, NullId}

\* Cast of a value to Schema.Types.ObjectId: fails on a malformed string.
CastFails(v) == v = Malformed

\* Ascending sort order of the stored names (null sorts first).
NameOrder == <<Null, "", "Food", "Pizza", "Soda">>
NameRank(n) == CHOOSE i \in 1..Len(NameOrder) : NameOrder[i] = n

VARIABLES
    Category,        \* the collection: identifier -> document
    req,             \* per client: the request being handled and its response
    nreq,            \* requests received so far
    stripUndefined   \* the build's update casting drops undefined keys

vars == <<Category, req, nreq, stripUndefined>>

Stored == DOMAIN Category

\* Identifiers a caller can send: those of stored documents (learned from
\* responses), a well-formed identifier of no document, a malformed one.
PathIds == Stored \cup {Dangling, Malformed}

NoBody == [name |-> Undefined, description |-> Undefined, icon |-> Undefined,
           color |-> Undefined, isActive |-> Undefined, parentId |-> UndefinedId,
           businessId |-> UndefinedId, tenantId |-> Undefined]

NoDoc == [name |-> Null, description |-> Null, icon |-> Null, color |-> Null,
          isActive |-> Null, parentId |-> NullId, subcategories |-> <<>>,
          businessId |-> NullId, tenantId |-> Null, createdAt |-> 0,
          updatedAt |-> 0]

Idle == [op |-> "idle", pc |-> "done", id |-> Dangling, body |-> NoBody,
         newId |-> Dangling, doc |-> NoDoc, status |-> 0,
         err |-> "none", data |-> <<>>]

\* The clock (Date.now, new Date()) is read only in the synchronous part of
\* a handler, when the request is received: it increases with every request.
Now == nreq + 1

\* new Category(...) generates an ObjectId that no document has.
Max(S) == CHOOSE m \in S : \A x \in S : x <= m
ObjectId == Max(Stored \cup {0}) + 1

\* --------------------------------------------------------------- schema
\* Faulty NewCategory: the parentId of the body is not stored.
NewCategoryNoParent(body, t) ==
    [name |-> body.name, description |-> body.description, icon |-> body.icon,
     color |-> body.color, isActive |-> "true", parentId |-> NullId,
     subcategories |-> <<>>, businessId |-> body.businessId,
     tenantId |-> body.tenantId, createdAt |-> t, updatedAt |-> t]

\* new Category({name, description, icon, color, parentId: parentId || null,
\* businessId, tenantId}) with the schema defaults.
NewCategory(body, t) ==
    [name |-> body.name, description |-> body.description, icon |-> body.icon,
     color |-> body.color, isActive |-> "true",
     parentId |-> IF TruthyId(body.parentId) THEN body.parentId ELSE NullId,
     subcategories |-> <<>>, businessId |-> body.businessId,
     tenantId |-> body.tenantId, createdAt |-> t, updatedAt |-> t]

\* The collection outlives the process.  The service starts on an empty
\* collection, or on one that earlier requests left behind: a category
\* created by POST {name: "Food"} and soft-deleted by DELETE.
Food == [NewCategory([NoBody EXCEPT !.name = "Food"], 0) EXCEPT
            !.isActive = "false"]

Collections == {<<>>, 1 :> Food}

Init ==
    /\ Category \in Collections
    /\ req = [c \in Clients |-> Idle]
    /\ nreq = 0
    /\ stripUndefined \in BOOLEAN

\* Faulty ValidationFails: the ObjectId paths are not cast.
ValidationFailsNoCast(doc) == ~TruthyText(doc.name)

\* Document validation of save(): the ObjectId paths must cast and the
\* required name must be a non-empty string.
ValidationFails(doc) ==
    \/ CastFails(doc.parentId)
    \/ CastFails(doc.businessId)
    \/ ~TruthyText(doc.name)

\* The unique index on name: an absent name is indexed as null.
IndexKey(n) == IF n = Undefined THEN Null ELSE n

\* Faulty NameTaken: the schema declares no unique index.
NameTakenNoIndex(n, self) == FALSE

NameTaken(n, self) ==
    \E i \in Stored \ {self} : IndexKey(Category[i].name) = IndexKey(n)

\* Faulty AddToSet: $set of the array to the one new identifier.
AddToSetOverwrite(subs, id) == <<id>>

\* Faulty AddToSet: the update names another path, the array is untouched.
AddToSetElsewhere(subs, id) == subs

\* $addToSet on the subcategories array.
AddToSet(subs, id) ==
    IF \E k \in 1..Len(subs) : subs[k] = id THEN subs ELSE Append(subs, id)

\* The update document {name, description, icon, color, isActive, updatedAt}
\* applied to a stored document: a supplied key is $set; a key that is
\* undefined is dropped by a build that strips undefined keys and is written
\* as null by one that does not.
CastField(old, new, strip) ==
    IF new # Undefined THEN new ELSE IF strip THEN old ELSE Null

\* Faulty CastUpdate: an omitted isActive is written as true.
CastUpdateDefaultActive(doc, body, t, strip) ==
    [doc EXCEPT !.name = CastField(@, body.name, strip),
                !.description = CastField(@, body.description, strip),
                !.icon = CastField(@, body.icon, strip),
                !.color = CastField(@, body.color, strip),
                !.isActive = IF body.isActive = Undefined THEN "true"
                             ELSE body.isActive,
                !.updatedAt = t]

CastUpdate(doc, body, t, strip) ==
    [doc EXCEPT !.name = CastField(@, body.name, strip),
                !.description = CastField(@, body.description, strip),
                !.icon = CastField(@, body.icon, strip),
                !.color = CastField(@, body.color, strip),
                !.isActive = CastField(@, body.isActive, strip),
                !.updatedAt = t]

\* ---------------------------------------------------------------- reads
\* populate('subcategories'): the referenced documents that exist.
Populate(subs) == SelectSeq(subs, LAMBDA i : i \in Stored)

\* A document as it is serialised in a response body.
Json(i, doc) ==
    [id |-> i, name |-> doc.name, isActive |-> doc.isActive,
     parentId |-> doc.parentId, subcategories |-> doc.subcategories,
     createdAt |-> doc.createdAt, updatedAt |-> doc.updatedAt]

Item(i, populate) ==
    Json(i, IF populate
            THEN [Category[i] EXCEPT !.subcategories = Populate(@)]
            ELSE Category[i])

\* sort({name: 1}) of a set of stored identifiers.
RECURSIVE SortByName(_)
SortByName(S) ==
    IF S = {} THEN <<>>
    ELSE LET m == CHOOSE i \in S : \A j \in S :
                      NameRank(IndexKey(Category[i].name))
                          <= NameRank(IndexKey(Category[j].name))
         IN  <<m>> \o SortByName(S \ {m})

\* The filter of GET /api/categories: isActive true and every supplied
\* (truthy) query parameter as an equality.
Matches(i, q) ==
    /\ Category[i].isActive = "true"
    /\ TruthyId(q.businessId) => Category[i].businessId = q.businessId
    /\ TruthyText(q.tenantId) => Category[i].tenantId = q.tenantId
    /\ TruthyId(q.parentId) => Category[i].parentId = q.parentId

\* The filter of GET /api/categories/:id/subcategories.
IsActiveChild(i, p) ==
    /\ Category[i].parentId = p
    /\ Category[i].isActive = "true"

Items(ids, populate) == [k \in 1..Len(ids) |-> Item(ids[k], populate)]

\* ---------------------------------------------------------------- inputs
\* Optional fields of a Create body: none of them, or all of them.
Extras == {[description |-> Undefined, icon |-> Undefined, color |-> Undefined,
            businessId |-> UndefinedId, tenantId |-> Undefined],
           [description |-> "d1", icon |-> "i1", color |-> "c1",
            businessId |-> Biz1, tenantId |-> "t1"]}

CreateBody(n, x, p) ==
    [NoBody EXCEPT !.name = n, !.description = x.description, !.icon = x.icon,
                   !.color = x.color, !.parentId = p,
                   !.businessId = x.businessId, !.tenantId = x.tenantId]

NoExtras  == CHOOSE x \in Extras : x.description = Undefined
AllExtras == CHOOSE x \in Extras : x.description # Undefined

\* Create bodies: each name alone and under each parent, one name with all
\* the optional fields, and the bodies without a name.
CreateBodies ==
    {CreateBody(n, NoExtras, p) : n \in Names, p \in PathIds \cup {UndefinedId}}
    \cup {CreateBody("Soda", AllExtras, UndefinedId),
          CreateBody(Undefined, NoExtras, UndefinedId)}
    \cup {CreateBody("", NoExtras, p) : p \in Stored}

UpdateBodies ==
    {NoBody,
     [NoBody EXCEPT !.name = "Food"],
     [NoBody EXCEPT !.name = "Pizza"],
     [NoBody EXCEPT !.description = "d2", !.icon = "i2", !.color = "c2"],
     [NoBody EXCEPT !.isActive = "true"],
     [NoBody EXCEPT !.isActive = "false"]}

\* Update requests: every body on a stored identifier, the empty body on an
\* identifier that resolves to nothing.
UpdateRequests ==
    (Stored \X UpdateBodies) \cup ({Dangling, Malformed} \X {NoBody})

Queries ==
    {[NoBody EXCEPT !.businessId = x.businessId, !.tenantId = x.tenantId,
                    !.parentId = p] :
        x \in Extras, p \in Stored \cup {UndefinedId, Malformed}}

\* -------------------------------------------------------------- requests
\* A handler's synchronous prefix reads only the request, the clock and the
\* ObjectId generator, so a request is received and its first store operation
\* executes in one step; a handler that awaits a second store operation
\* (Create's add-to-set, Soft-delete's save) waits at pc for its next step.
Receive(op, id, body) ==
    [Idle EXCEPT !.op = op, !.id = id, !.body = body]

Done(r, status, err, data) ==
    [r EXCEPT !.pc = "done", !.status = status, !.err = err, !.data = data,
              !.doc = NoDoc]

CanReceive(c) == req[c].pc = "done" /\ nreq < MaxReqs

\* ------------------------------------------- GET /api/categories (72-97)
GetCategories(c) ==
    /\ CanReceive(c)
    /\ \E q \in Queries :
        LET r == Receive("list", Dangling, q) IN
        \/ /\ CastFails(q.parentId) \/ CastFails(q.businessId)
           /\ req' = [req EXCEPT ![c] = Done(r, 500, "CastError", <<>>)]
        \/ /\ ~(CastFails(q.parentId) \/ CastFails(q.businessId))
           /\ \/ req' = [req EXCEPT ![c] = Done(r, 500, "StoreError", <<>>)]
              \/ req' = [req EXCEPT ![c] = Done(r, 200, "none",
                     Items(SortByName({i \in Stored : Matches(i, q)}), TRUE))]
    /\ nreq' = nreq + 1
    /\ UNCHANGED <<Category, stripUndefined>>

\* ------------------------------------- GET /api/categories/:id (100-123)
GetCategory(c) ==
    /\ CanReceive(c)
    /\ \E id \in PathIds :
        LET r == Receive("get", id, NoBody) IN
        \/ /\ CastFails(id)
           /\ req' = [req EXCEPT ![c] = Done(r, 500, "CastError", <<>>)]
        \/ /\ ~CastFails(id)
           /\ \/ req' = [req EXCEPT ![c] = Done(r, 500, "StoreError", <<>>)]
              \/ /\ id \notin Stored
                 /\ req' = [req EXCEPT ![c] = Done(r, 404, "none", <<>>)]
              \/ /\ id \in Stored
                 /\ req' = [req EXCEPT ![c] =
                              Done(r, 200, "none", <<Item(id, TRUE)>>)]
    /\ nreq' = nreq + 1
    /\ UNCHANGED <<Category, stripUndefined>>

\* ----------------------- GET /api/categories/:id/subcategories (126-145)
GetSubcategories(c) ==
    /\ CanReceive(c)
    /\ \E id \in PathIds :
        LET r == Receive("subs", id, NoBody) IN
        \/ /\ CastFails(id)
           /\ req' = [req EXCEPT ![c] = Done(r, 500, "CastError", <<>>)]
        \/ /\ ~CastFails(id)
           /\ \/ req' = [req EXCEPT ![c] = Done(r, 500, "StoreError", <<>>)]
              \/ req' = [req EXCEPT ![c] = Done(r, 200, "none",
                     Items(SortByName({i \in Stored : IsActiveChild(i, id)}),
                           FALSE))]
    /\ nreq' = nreq + 1
    /\ UNCHANGED <<Category, stripUndefined>>

\* ---------------------------------------- POST /api/categories (148-189)
\* Faulty NameMissing: if (name === undefined)
NameUndefined(name) == name = Undefined

\* if (!name)
NameMissing(name) == ~TruthyText(name)

\* Validation of the body, new Category(...) and await category.save().
CreateCategory(c) ==
    /\ CanReceive(c)
    /\ \E body \in CreateBodies :
        LET id  == ObjectId
            doc == NewCategory(body, Now)
            r   == Receive("create", Dangling, body)
            new == [r EXCEPT !.newId = id]
        IN
        \/ /\ NameMissing(body.name)
           /\ req' = [req EXCEPT ![c] = Done(r, 400, "none", <<>>)]
           /\ UNCHANGED Category
        \/ /\ ~NameMissing(body.name)
           /\ \/ /\ ValidationFails(doc)
                 /\ req' = [req EXCEPT ![c] = Done(r, 500, "ValidationError", <<>>)]
                 /\ UNCHANGED Category
              \/ /\ ~ValidationFails(doc)
                 /\ \/ /\ req' = [req EXCEPT ![c] = Done(r, 500, "StoreError", <<>>)]
                       /\ UNCHANGED Category
                    \/ /\ NameTaken(doc.name, id)
                       /\ req' = [req EXCEPT ![c] = Done(r, 500, "E11000", <<>>)]
                       /\ UNCHANGED Category
                    \/ /\ ~NameTaken(doc.name, id)
                       /\ Category' = Category @@ (id :> doc)
                       /\ req' = [req EXCEPT ![c] =
                                    IF TruthyId(body.parentId)
                                    THEN [new EXCEPT !.pc = "link", !.doc = doc]
                                    ELSE Done(new, 201, "none", <<Json(id, doc)>>)]
    /\ nreq' = nreq + 1
    /\ UNCHANGED stripUndefined

\* await Category.findByIdAndUpdate(parentId, {$addToSet: ...})
CreateCategoryLink(c) ==
    /\ req[c].op = "create" /\ req[c].pc = "link"
    /\ LET p  == req[c].body.parentId
           id == req[c].newId
       IN
       \/ /\ CastFails(p)
          /\ req' = [req EXCEPT ![c] = Done(@, 500, "CastError", <<>>)]
          /\ UNCHANGED Category
       \/ /\ ~CastFails(p)
          /\ \/ /\ req' = [req EXCEPT ![c] = Done(@, 500, "StoreError", <<>>)]
                /\ UNCHANGED Category
             \/ /\ Category' = IF p \in Stored
                               THEN [Category EXCEPT ![p].subcategories =
                                        AddToSet(@, id)]
                               ELSE Category
                /\ req' = [req EXCEPT ![c] =
                             Done(@, 201, "none", <<Json(id, req[c].doc)>>)]
    /\ UNCHANGED <<nreq, stripUndefined>>

\* ------------------------------------- PUT /api/categories/:id (192-227)
\* await Category.findByIdAndUpdate(req.params.id, {...}, {new: true})
UpdateCategory(c) ==
    /\ CanReceive(c)
    /\ \E u \in UpdateRequests :
        LET id   == u[1]
            body == u[2]
            r    == Receive("update", id, body)
        IN
        \/ /\ CastFails(id)
           /\ req' = [req EXCEPT ![c] = Done(r, 500, "CastError", <<>>)]
           /\ UNCHANGED Category
        \/ /\ ~CastFails(id)
           /\ \/ /\ req' = [req EXCEPT ![c] = Done(r, 500, "StoreError", <<>>)]
                 /\ UNCHANGED Category
              \/ /\ id \notin Stored
                 /\ req' = [req EXCEPT ![c] = Done(r, 404, "none", <<>>)]
                 /\ UNCHANGED Category
              \/ /\ id \in Stored
                 /\ LET new == CastUpdate(Category[id], body, Now, stripUndefined)
                    IN  \/ /\ NameTaken(new.name, id)
                           /\ req' = [req EXCEPT ![c] = Done(r, 500, "E11000", <<>>)]
                           /\ UNCHANGED Category
                        \/ /\ ~NameTaken(new.name, id)
                           /\ Category' = [Category EXCEPT ![id] = new]
                           /\ req' = [req EXCEPT ![c] =
                                        Done(r, 200, "none", <<Json(id, new)>>)]
    /\ nreq' = nreq + 1
    /\ UNCHANGED stripUndefined

\* ---------------------------------- DELETE /api/categories/:id (230-256)
\* const category = await Category.findById(req.params.id)
DeleteCategory(c) ==
    /\ CanReceive(c)
    /\ \E id \in PathIds :
        LET r == Receive("delete", id, NoBody) IN
        \/ /\ CastFails(id)
           /\ req' = [req EXCEPT ![c] = Done(r, 500, "CastError", <<>>)]
        \/ /\ ~CastFails(id)
           /\ \/ req' = [req EXCEPT ![c] = Done(r, 500, "StoreError", <<>>)]
              \/ /\ id \notin Stored
                 /\ req' = [req EXCEPT ![c] = Done(r, 404, "none", <<>>)]
              \/ /\ id \in Stored
                 /\ req' = [req EXCEPT ![c] =
                              [r EXCEPT !.pc = "save", !.doc = Category[id]]]
    /\ nreq' = nreq + 1
    /\ UNCHANGED <<Category, stripUndefined>>

\* category.isActive = value marks the path modified only when the loaded
\* value differs; save() writes the modified paths and nothing else.
IsModified(loaded, value) == loaded.isActive # value

\* category.isActive = false; await category.save()
DeleteCategorySave(c) ==
    /\ req[c].op = "delete" /\ req[c].pc = "save"
    /\ LET id     == req[c].id
           loaded == req[c].doc
       IN
       \/ /\ ValidationFails(loaded)
          /\ req' = [req EXCEPT ![c] = Done(@, 500, "ValidationError", <<>>)]
          /\ UNCHANGED Category
       \/ /\ ~ValidationFails(loaded)
          /\ \/ /\ req' = [req EXCEPT ![c] = Done(@, 500, "StoreError", <<>>)]
                /\ UNCHANGED Category
             \/ /\ Category' = IF IsModified(loaded, "false")
                               THEN [Category EXCEPT ![id].isActive = "false"]
                               ELSE Category
                /\ req' = [req EXCEPT ![c] = Done(@, 200, "none", <<>>)]
    /\ UNCHANGED <<nreq, stripUndefined>>

\* ------------------------------------------------------- specification
Continue(c) ==
    \/ CreateCategoryLink(c)
    \/ DeleteCategorySave(c)

Next ==
    \E c \in Clients :
        \/ GetCategories(c)
        \/ GetCategory(c)
        \/ GetSubcategories(c)
        \/ CreateCategory(c)
        \/ UpdateCategory(c)
        \/ DeleteCategory(c)
        \/ Continue(c)

Spec == Init /\ [][Next]_vars

\* Every awaited store operation settles: a handler that is waiting is
\* eventually resumed.
FairSpec == Spec /\ \A c \in Clients : WF_vars(Continue(c))

\* ------------------------------------------------------------ properties
Range(q) == {q[k] : k \in 1..Len(q)}

Done200(c, op)  == req[c].op = op /\ req[c].pc = "done" /\ req[c].status = 200
Created(c)      == req[c].op = "create" /\ req[c].pc = "done"
                   /\ req[c].status = 201
CreateFailed(c) == req[c].op = "create" /\ req[c].pc = "done"
                   /\ req[c].status = 500

\* The step receives a request of client c (a request that changes the
\* collection changes the client's record: its response carries the new
\* identifier or the new updatedAt).
Received(c, op) == nreq' = nreq + 1 /\ req'[c] # req[c] /\ req'[c].op = op

\* C1 as stated: once a Create that persisted a category under an existing
\* parent has completed, the parent's subcategories contain the new
\* identifier.
C1_Original ==
    \A c \in Clients :
        (/\ req[c].op = "create" /\ req[c].pc = "done"
         /\ req[c].newId \in Stored
         /\ req[c].body.parentId \in Stored)
        => req[c].newId \in Range(Category[req[c].body.parentId].subcategories)

\* C1 amended: a Create that persisted a category and waits for the
\* add-to-set write is eventually resumed; in that step it either answers 201,
\* and then an existing parent's subcategories contain the new identifier, or
\* answers 500 because the write failed in the store; an identifier that is
\* in a subcategories array stays in it.
Linking(c) == req[c].op = "create" /\ req[c].pc = "link"

C1_Amended ==
    /\ \A c \in Clients : Linking(c) ~> ~Linking(c)
    /\ [][\A c \in Clients :
             (Linking(c) /\ ~Linking(c)')
             => /\ req'[c].pc = "done"
                /\ req'[c].newId = req[c].newId
                /\ req'[c].body = req[c].body
                /\ \/ /\ req'[c].status = 201
                      /\ req[c].body.parentId \in Stored
                            => req[c].newId \in
                                 Range(Category'[req[c].body.parentId].subcategories)
                   \/ /\ req'[c].status = 500
                      /\ req'[c].err = "StoreError"]_vars
    /\ [][\A p \in Stored :
             Range(Category[p].subcategories)
                 \subseteq Range(Category'[p].subcategories)]_vars

C1_Witness ==
    \E c \in Clients :
        /\ Created(c)
        /\ req[c].body.parentId \in Stored
        /\ req[c].newId \in Range(Category[req[c].body.parentId].subcategories)
        /\ Category[req[c].body.parentId].isActive = "false"

\* C2 as stated: Get, Update and Soft-delete on an identifier that resolves
\* to no stored category answer 404 (a failure of the store itself aside).
C2_Original ==
    \A c \in Clients :
        (/\ req[c].op \in {"get", "update", "delete"}
         /\ req[c].pc = "done"
         /\ req[c].id \notin Stored
         /\ req[c].err # "StoreError")
        => req[c].status = 404

\* C3 as stated: no step turns a stored isActive from false to true.
C3_Original ==
    [][\A i \in Stored :
          Category[i].isActive = "false" => Category'[i].isActive # "true"]_vars

\* C3 amended: a stored isActive goes from false to true only in the step of
\* an Update on that category whose body supplies isActive = true.
C3_Amended ==
    [][\A i \in Stored :
          (Category[i].isActive = "false" /\ Category'[i].isActive = "true")
          => \E c \in Clients :
                /\ Received(c, "update")
                /\ req'[c].id = i
                /\ req'[c].body.isActive = "true"
                /\ req'[c].status = 200]_vars

C3_Witness ==
    \E c \in Clients, d \in Clients :
        /\ Done200(d, "delete")
        /\ Done200(c, "update")
        /\ req[c].id = req[d].id
        /\ req[c].body.isActive = "true"
        /\ Category[req[c].id].isActive = "true"

\* C4: no two stored categories have the same name, and a Create or Update
\* that would give a second category a name already in use answers 500 and
\* leaves the collection unchanged.
C4_UniqueNames ==
    /\ [](\A i \in Stored : \A j \in Stored \ {i} :
             IndexKey(Category[i].name) # IndexKey(Category[j].name))
    /\ [][\A c \in Clients :
             (\/ /\ Received(c, "create")
                 /\ \E i \in Stored : Category[i].name = req'[c].body.name
              \/ /\ Received(c, "update")
                 /\ req'[c].id \in Stored
                 /\ \E i \in Stored \ {req'[c].id} :
                       Category[i].name = req'[c].body.name)
             => req'[c].status = 500 /\ Category' = Category]_vars

C4_Witness ==
    \E c \in Clients :
        /\ req[c].op = "update" /\ req[c].err = "E11000" /\ req[c].status = 500
        /\ \E i \in Stored \ {req[c].id} : Category[i].name = req[c].body.name

\* The stored document that the supplied fields of an Update body describe:
\* a supplied field has the body's value, an omitted one keeps its value.
Supplied(old, new) == IF new # Undefined THEN new ELSE old
Merged(doc, body) ==
    [doc EXCEPT !.name = Supplied(@, body.name),
                !.description = Supplied(@, body.description),
                !.icon = Supplied(@, body.icon),
                !.color = Supplied(@, body.color),
                !.isActive = Supplied(@, body.isActive)]

\* C5 as stated: an Update that answers 200 changes, in the collection, only
\* the supplied fields and updatedAt of the addressed category.
C5_Original ==
    [][\A c \in Clients :
          (Received(c, "update") /\ req'[c].status = 200)
          => /\ Stored' = Stored
             /\ \A i \in Stored \ {req'[c].id} : Category'[i] = Category[i]
             /\ [Category'[req'[c].id] EXCEPT !.updatedAt = 0]
                  = [Merged(Category[req'[c].id], req'[c].body)
                        EXCEPT !.updatedAt = 0]]_vars

\* C6 as stated: when a Soft-delete answers 200 the category is stored with
\* isActive false, which is what a Get that follows returns.
C6_Original ==
    [][\A c \in Clients :
          (/\ req[c].op = "delete" /\ req[c].pc = "save"
           /\ req'[c].pc = "done" /\ req'[c].status = 200)
          => /\ req[c].id \in Stored'
             /\ Category'[req[c].id].isActive = "false"]_vars

\* C7: a Create whose name is omitted or empty answers 400 and leaves the
\* collection as it was, whatever parentId it carries.
C7_NameRequired ==
    /\ [](\A c \in Clients :
             (req[c].op = "create" /\ req[c].body.name \in {Undefined, ""})
             => req[c].pc = "done" /\ req[c].status = 400)
    /\ [][\A c \in Clients :
             (Received(c, "create") /\ req'[c].body.name \in {Undefined, ""})
             => Category' = Category]_vars

C7_Witness ==
    \E c \in Clients :
        /\ req[c].op = "create" /\ req[c].status = 400
        /\ req[c].body.name = ""
        /\ req[c].body.parentId \in Stored

\* C8: every entry of a category's subcategories array is the identifier of
\* a stored category whose parentId is that category, and no entry repeats.
C8_BackReferenceSound ==
    \A p \in Stored :
        LET subs == Category[p].subcategories IN
        /\ \A k \in 1..Len(subs) :
              subs[k] \in Stored /\ Category[subs[k]].parentId = p
        /\ Cardinality(Range(subs)) = Len(subs)

C8_Witness ==
    \E p \in Stored :
        /\ Len(Category[p].subcategories) = 2
        /\ Category[p].isActive = "false"

\* C9: every Create that has answered 201 for an existing parent has its new
\* identifier in the parent's subcategories, whatever other Creates did.
C9_NoLostBackReference ==
    \A c \in Clients :
        (Created(c) /\ req[c].body.parentId \in Stored)
        => req[c].newId \in Range(Category[req[c].body.parentId].subcategories)

C9_Witness ==
    \E c \in Clients, d \in Clients :
        /\ c # d
        /\ Created(c) /\ Created(d)
        /\ req[c].body.parentId \in Stored
        /\ req[d].body.parentId = req[c].body.parentId
        /\ req[c].newId # req[d].newId
        /\ Category[req[c].body.parentId].subcategories
              = <<req[d].newId, req[c].newId>>
        /\ req[c].newId < req[d].newId

\* C10 as stated: a Create that answered 500 has persisted no category.
C10_Original ==
    \A c \in Clients : CreateFailed(c) => req[c].newId \notin Stored

\* C10 amended: the step in which a Create answers 500 changes no document;
\* the new category is persisted by such a Create only when save succeeded
\* and the add-to-set write failed in the store, and then no subcategories
\* array holds its identifier.
C10_Amended ==
    /\ [](\A c \in Clients :
             (CreateFailed(c) /\ req[c].newId \in Stored)
             => /\ req[c].err = "StoreError"
                /\ TruthyId(req[c].body.parentId)
                /\ \A p \in Stored :
                      req[c].newId \notin Range(Category[p].subcategories))
    /\ [][\A c \in Clients :
             (req'[c] # req[c] /\ req'[c].op = "create" /\ req'[c].status = 500)
             => Category' = Category]_vars

C10_Witness ==
    \E c \in Clients :
        /\ CreateFailed(c)
        /\ req[c].newId \in Stored
        /\ req[c].body.parentId \in Stored

====
